---- MODULE Spec2Model ----
(***************************************************************************)
(* The two batch jobs of the repository over the directory trees           *)
(* original/, weblate/ and target/:                                        *)
(*   generate_weblate_csv.py  (the exporter: fresh export or merge)        *)
(*   apply_translate.py       (the importer)                               *)
(*                                                                         *)
(* A CSV file is modelled by its parsed data rows, each a triple of texts  *)
(* in the order of the file's schema: <<Key, SourceString, Comment>> for   *)
(* the original schema and <<source, target, developer_comments>> for the  *)
(* platform schema. The header row names exactly those columns, every row  *)
(* has its three fields, and a text is what csv.DictReader yields for the  *)
(* field in the scripts' text-mode reads. A Python dict is an              *)
(* insertion-ordered sequence of entries with distinct keys. Every open,   *)
(* read and write inside a try block may raise; Path.exists, rglob and the *)
(* root mkdir calls, which no try block covers, do not.                    *)
(***************************************************************************)
EXTENDS Integers, Sequences, FiniteSets, TLC

\* ------------------------------------------------------------------ bounds
MaxRows == 2      \* data rows of an input file
MaxRuns == 2      \* batch jobs run one after the other
MaxFiles == 2     \* CSV files under original/ in the traversal specifications
MaxFaults == 1    \* I/O failures the environment may inject

VARIABLES
    original,          \* original/**: path index -> rows of the file
    weblate,           \* weblate/**:  path index -> [exists, rows]
    target,            \* target/**:   path index -> [exists, rows]
    job,               \* "idle" | "export" | "import": the job in progress
    csv_files,         \* the list rglob returned to the running job
    idx,               \* position of the for loop in csv_files
    csv_file,          \* the loop variable: the file of the last per-file call
    processed,         \* path index -> times the running job handled the file
    existing_read,     \* what read_csv_to_dict returned (exporter, merge)
    existing_data,     \* existing_data after the merge loop
    new_data,          \* new_data read from the original file
    translation_map,   \* what read_translation_map returned (importer)
    rows,              \* the rows list create_new_file / the importer built
    read_error,        \* the map reader's except branch was taken
    outcome,           \* how the last per-file call ended
    log,               \* the jobs completed so far, oldest first
    faults             \* I/O failures the environment may still inject

vars == <<original, weblate, target, job, csv_files, idx, csv_file, processed,
          existing_read, existing_data, new_data, translation_map, rows,
          read_error, outcome, log, faults>>

\* ------------------------------------------------------------- value sets
Keys == {"", "k1", "k2", "k3"}

NoFile == [exists |-> FALSE, rows |-> <<>>]
File(rs) == [exists |-> TRUE, rows |-> rs]

SeqsUpTo(S, n) == UNION {[1..m -> S] : m \in 0..n}

Paths == 1..Len(original)

\* ------------------------------------------------------------ Python dict
Entry(s, t, c) == [source |-> s, target |-> t, developer_comments |-> c]

KeyIn(d, k) == \E i \in 1..Len(d) : d[i].source = k

IndexOf(d, k) == CHOOSE i \in 1..Len(d) : d[i].source = k

Lookup(d, k) == d[IndexOf(d, k)]

\* d[e.source] = e: a present key keeps its position and takes the new value
DictSet(d, e) ==
    IF KeyIn(d, e.source)
    THEN [d EXCEPT ![IndexOf(d, e.source)] = e]
    ELSE Append(d, e)

\* --------------------------------------------------- the map readers
RECURSIVE ReadRows(_, _)
ReadRows(rs, d) ==
    IF rs = <<>> THEN d
    ELSE LET row == Head(rs)
             source == row[1]
         IN ReadRows(Tail(rs),
                     IF source # ""
                     THEN DictSet(d, Entry(source, row[2], row[3]))
                     ELSE d)

\* The outcomes of reading a file of rows rs: the reader yields n rows and
\* then either reaches the end (fail = FALSE, n = Len(rs)) or raises.
ReadOutcomes(rs, budget) ==
    {[fail |-> FALSE, n |-> Len(rs)]}
    \cup {[fail |-> TRUE, n |-> i] : i \in IF budget > 0 THEN 0..Len(rs) ELSE {}}

Cost(o) == IF o.fail THEN 1 ELSE 0

\* read_csv_to_dict: the rows read before an exception stay in data
read_csv_to_dict(file, o) ==
    IF file.exists THEN ReadRows(SubSeq(file.rows, 1, o.n), <<>>) ELSE <<>>

\* read_translation_map: the same loop, keyed by source
read_translation_map(file, o) ==
    IF file.exists THEN ReadRows(SubSeq(file.rows, 1, o.n), <<>>) ELSE <<>>

\* ---------------------------------------------------------- the exporter
\* new_data of update_or_insert_existing_file: rows with an empty Key skipped
ReadNewData(rs) == ReadRows(rs, <<>>)

\* MergeRow with the source text overwriting an existing target
MergeRowOverwrite(E, new_row) ==
    IF KeyIn(E, new_row.source)
    THEN LET i == IndexOf(E, new_row.source)
             old == E[i]
         IN [E EXCEPT ![i] =
                Entry(old.source,
                      new_row.target,
                      IF old.developer_comments = ""
                      THEN new_row.developer_comments
                      ELSE old.developer_comments)]
    ELSE Append(E, Entry(new_row.source, new_row.target,
                         new_row.developer_comments))

\* MergeRow with a new key put ahead of the existing entries
MergeRowPrepend(E, new_row) ==
    IF KeyIn(E, new_row.source)
    THEN LET i == IndexOf(E, new_row.source)
             old == E[i]
         IN [E EXCEPT ![i] =
                Entry(old.source,
                      IF old.target = "" THEN new_row.target ELSE old.target,
                      IF old.developer_comments = ""
                      THEN new_row.developer_comments
                      ELSE old.developer_comments)]
    ELSE <<Entry(new_row.source, new_row.target,
                 new_row.developer_comments)>> \o E

\* MergeRow without the test for a key that is already there
MergeRowAppend(E, new_row) ==
    Append(E, Entry(new_row.source, new_row.target,
                    new_row.developer_comments))

\* one iteration of the merge loop
MergeRow(E, new_row) ==
    IF KeyIn(E, new_row.source)
    THEN LET i == IndexOf(E, new_row.source)
             old == E[i]
         IN [E EXCEPT ![i] =
                Entry(old.source,
                      IF old.target = "" THEN new_row.target ELSE old.target,
                      IF old.developer_comments = ""
                      THEN new_row.developer_comments
                      ELSE old.developer_comments)]
    ELSE Append(E, Entry(new_row.source, new_row.target,
                         new_row.developer_comments))

\* Merge built from the rows of new_data, the stale entries left out
MergeFromNew(E, N) ==
    [i \in 1..Len(N) |->
        IF KeyIn(E, N[i].source)
        THEN LET old == Lookup(E, N[i].source)
             IN Entry(old.source,
                      IF old.target = "" THEN N[i].target ELSE old.target,
                      IF old.developer_comments = ""
                      THEN N[i].developer_comments
                      ELSE old.developer_comments)
        ELSE N[i]]

RECURSIVE Merge(_, _)
Merge(E, N) ==
    IF N = <<>> THEN E ELSE Merge(MergeRow(E, Head(N)), Tail(N))

RowOf(e) == <<e.source, e.target, e.developer_comments>>

HasSource(e) == e.source # ""

\* the write loop of update_or_insert_existing_file
MergedRows(d) ==
    LET kept == SelectSeq(d, HasSource)
    IN [i \in 1..Len(kept) |-> RowOf(kept[i])]

HasKey(row) == row[1] # ""

\* CreateRows without the test for an empty Key
CreateRowsKeepAll(rs) == rs

\* the rows list of create_new_file
CreateRows(rs) == SelectSeq(rs, HasKey)

\* ---------------------------------------------------------- the importer
\* ApplyRow taking the map's target even when it is empty
ApplyRowAlwaysOverrides(row, map) ==
    LET key == row[1]
        source_string ==
            IF KeyIn(map, key) THEN Lookup(map, key).target ELSE row[2]
    IN <<key, source_string, row[3]>>

\* ApplyRow filling the Comment from the map as the exporter's merge would
ApplyRowTakesComment(row, map) ==
    LET key == row[1]
        source_string ==
            IF KeyIn(map, key) /\ Lookup(map, key).target # ""
            THEN Lookup(map, key).target
            ELSE row[2]
        comment ==
            IF KeyIn(map, key) /\ Lookup(map, key).developer_comments # ""
            THEN Lookup(map, key).developer_comments
            ELSE row[3]
    IN <<key, source_string, comment>>

\* the body of the importer's row loop
ApplyRow(row, map) ==
    LET key == row[1]
        source_string ==
            IF KeyIn(map, key) /\ Lookup(map, key).target # ""
            THEN Lookup(map, key).target
            ELSE row[2]
    IN <<key, source_string, row[3]>>

ApplyRows(rs, map) == [i \in 1..Len(rs) |-> ApplyRow(rs[i], map)]

\* ---------------------------------------------------------------- writes
\* open(path, "w") and the writer: all rows, or an exception before the file
\* is opened (old content stays), or after a prefix of the rows was written
WriteOutcomes(old, rs, budget) ==
    {[fail |-> FALSE, file |-> File(rs)]}
    \cup (IF budget > 0
          THEN {[fail |-> TRUE, file |-> old]}
               \cup {[fail |-> TRUE, file |-> File(SubSeq(rs, 1, i))] :
                        i \in 0..(Len(rs) - 1)}
          ELSE {})

\* reading the input file of a per-file call: it is read whole or the call ends
InputOutcomes(budget) == {FALSE} \cup (IF budget > 0 THEN {TRUE} ELSE {})

\* ------------------------------------------------------------- traversal
Orders(n) == {s \in [1..n -> 1..n] : \A i, j \in 1..n : s[i] = s[j] => i = j}

ErrorOutcomes == {"input_error", "write_error"}

\* LoopNext with a failed call ending the traversal
LoopAbortOnError(i, n, out) ==
    IF i = n \/ out \in ErrorOutcomes THEN "idle" ELSE job

\* the for loop: the next file, whatever the call on this one did
LoopNext(i, n, out) == IF i = n THEN "idle" ELSE job

\* process_all_csv_files up to the loop (either script)
StartJob(kind) ==
    /\ Len(log) < MaxRuns
    /\ \E order \in Orders(Len(original)) :
          /\ csv_files' = order
          /\ idx' = 1
          /\ processed' = [p \in Paths |-> 0]
          /\ IF Len(original) = 0
             THEN job' = "idle" /\ log' = Append(log, kind)
             ELSE job' = kind /\ log' = log
    /\ UNCHANGED <<original, weblate, target, faults, csv_file, existing_read,
                   existing_data, new_data, translation_map, rows,
                   read_error, outcome>>

\* generate_weblate_csv.py: main
StartExport ==
    /\ job = "idle"
    /\ StartJob("export")

\* apply_translate.py: main
StartImport ==
    /\ job = "idle"
    /\ StartJob("import")

Advance(p, out) ==
    /\ csv_file' = p
    /\ idx' = idx + 1
    /\ processed' = [processed EXCEPT ![p] = @ + 1]
    /\ job' = LoopNext(idx, Len(csv_files), out)
    /\ log' = IF LoopNext(idx, Len(csv_files), out) = "idle"
              THEN Append(log, job) ELSE log
    /\ UNCHANGED <<original, csv_files>>

\* update_or_insert_existing_file(csv_file, output_file_path)
update_or_insert_existing_file(p) ==
    \E r \in ReadOutcomes(weblate[p].rows, faults) :
    \E inFail \in InputOutcomes(faults - Cost(r)) :
      LET E == read_csv_to_dict(weblate[p], r)
          N == ReadNewData(original[p])
          M == Merge(E, N)
      IN /\ existing_read' = E
         /\ read_error' = r.fail
         /\ translation_map' = <<>>
         /\ rows' = <<>>
         /\ IF inFail
            THEN /\ existing_data' = E
                 /\ new_data' = <<>>
                 /\ weblate' = weblate
                 /\ outcome' = "input_error"
                 /\ faults' = faults - Cost(r) - 1
                 /\ Advance(p, "input_error")
            ELSE \E w \in WriteOutcomes(weblate[p], MergedRows(M),
                                        faults - Cost(r)) :
                 /\ existing_data' = M
                 /\ new_data' = N
                 /\ weblate' = [weblate EXCEPT ![p] = w.file]
                 /\ outcome' = IF w.fail THEN "write_error" ELSE "updated"
                 /\ faults' = faults - Cost(r) - Cost(w)
                 /\ Advance(p, IF w.fail THEN "write_error" ELSE "updated")

\* create_new_file(csv_file, output_file_path)
create_new_file(p) ==
    \E inFail \in InputOutcomes(faults) :
      /\ existing_read' = <<>>
      /\ existing_data' = <<>>
      /\ new_data' = <<>>
      /\ translation_map' = <<>>
      /\ read_error' = FALSE
      /\ IF inFail
         THEN /\ rows' = <<>>
              /\ weblate' = weblate
              /\ outcome' = "input_error"
              /\ faults' = faults - 1
              /\ Advance(p, "input_error")
         ELSE LET rs == CreateRows(original[p])
              IN /\ rows' = rs
                 /\ IF rs = <<>>
                    THEN /\ weblate' = weblate
                         /\ outcome' = "empty"
                         /\ faults' = faults
                         /\ Advance(p, "empty")
                    ELSE \E w \in WriteOutcomes(weblate[p], rs, faults) :
                         /\ weblate' = [weblate EXCEPT ![p] = w.file]
                         /\ outcome' = IF w.fail THEN "write_error"
                                       ELSE "created"
                         /\ faults' = faults - Cost(w)
                         /\ Advance(p, IF w.fail THEN "write_error"
                                       ELSE "created")

\* one iteration of the exporter's loop
ExportFile ==
    /\ job = "export"
    /\ idx <= Len(csv_files)
    /\ LET p == csv_files[idx]
       IN IF weblate[p].exists
          THEN update_or_insert_existing_file(p)
          ELSE create_new_file(p)
    /\ UNCHANGED target

\* apply_translation_to_original(csv_file, translation_map, target_file_path)
apply_translation_to_original(p, map, budget) ==
    \E inFail \in InputOutcomes(budget) :
      IF inFail
      THEN /\ rows' = <<>>
           /\ target' = target
           /\ outcome' = "input_error"
           /\ faults' = budget - 1
           /\ Advance(p, "input_error")
      ELSE LET rs == ApplyRows(original[p], map)
           IN /\ rows' = rs
              /\ IF rs = <<>>
                 THEN /\ target' = target
                      /\ outcome' = "empty"
                      /\ faults' = budget
                      /\ Advance(p, "empty")
                 ELSE \E w \in WriteOutcomes(target[p], rs, budget) :
                      /\ target' = [target EXCEPT ![p] = w.file]
                      /\ outcome' = IF w.fail THEN "write_error"
                                    ELSE "applied"
                      /\ faults' = budget - Cost(w)
                      /\ Advance(p, IF w.fail THEN "write_error"
                                    ELSE "applied")

\* one iteration of the importer's loop
ImportFile ==
    /\ job = "import"
    /\ idx <= Len(csv_files)
    /\ LET p == csv_files[idx]
       IN \E r \in ReadOutcomes(weblate[p].rows,
                                IF weblate[p].exists THEN faults ELSE 0) :
            LET map == read_translation_map(weblate[p], r)
            IN /\ translation_map' = map
               /\ read_error' = r.fail
               /\ apply_translation_to_original(p, map, faults - Cost(r))
    /\ existing_read' = <<>>
    /\ existing_data' = <<>>
    /\ new_data' = <<>>
    /\ UNCHANGED weblate

\* ------------------------------------------------------- specifications
OrigValues == {<<"a", "">>, <<"", "c">>}

PlatformValues == {<<"b", "">>, <<"", "d">>}

OrigRows ==
    {<<"", "a", "c">>} \cup {<<k, v[1], v[2]>> : k \in Keys \ {""}, v \in OrigValues}

PlatformRows ==
    {<<"", "b", "d">>}
    \cup {<<k, v[1], v[2]>> : k \in Keys \ {""}, v \in PlatformValues}

InitLocals ==
    /\ job = "idle"
    /\ csv_files = <<>>
    /\ idx = 1
    /\ csv_file = 0
    /\ existing_read = <<>>
    /\ existing_data = <<>>
    /\ new_data = <<>>
    /\ translation_map = <<>>
    /\ rows = <<>>
    /\ read_error = FALSE
    /\ outcome = "none"
    /\ log = <<>>

\* one file under original/, any platform file or none beside it, sound disk
Init ==
    /\ original \in {<<f>> : f \in SeqsUpTo(OrigRows, MaxRows)}
    /\ weblate \in {<<NoFile>>}
                   \cup {<<File(f)>> : f \in SeqsUpTo(PlatformRows, MaxRows)}
    /\ target = <<NoFile>>
    /\ processed = <<0>>
    /\ faults = 0
    /\ InitLocals

Next == StartExport \/ ExportFile \/ StartImport \/ ImportFile

Spec == Init /\ [][Next]_vars

\* round trips: one file under original/ with any keys and texts, no platform
\* file yet, sound disk
RoundTripRows == Keys \X {"", "a", "b"} \X {"", "c"}

InitRoundTrip ==
    /\ original \in {<<f>> : f \in SeqsUpTo(RoundTripRows, MaxRows)}
    /\ weblate = <<NoFile>>
    /\ target = <<NoFile>>
    /\ processed = <<0>>
    /\ faults = 0
    /\ InitLocals

SpecRoundTrip == InitRoundTrip /\ [][Next]_vars

\* traversals: up to MaxFiles files under original/ and a disk that fails up
\* to MaxFaults times
JobOrigFiles ==
    { <<<<"k1", "a", "">>>>,
      <<<<"", "a", "c">>>> }

JobPlatformFiles ==
    { NoFile,
      File(<<<<"k1", "b", "">>, <<"k2", "", "d">>>>) }

InitJob ==
    /\ \E n \in 0..MaxFiles :
          /\ original \in [1..n -> JobOrigFiles]
          /\ weblate \in [1..n -> JobPlatformFiles]
          /\ target = [p \in 1..n |-> NoFile]
          /\ processed = [p \in 1..n |-> 0]
    /\ faults = MaxFaults
    /\ InitLocals

\* the author rewrites a file under original/ between two jobs
EditOriginal ==
    /\ job = "idle"
    /\ Len(log) < MaxRuns
    /\ \E p \in Paths : \E f \in JobOrigFiles :
          /\ f # original[p]
          /\ original' = [original EXCEPT ![p] = f]
    /\ UNCHANGED <<weblate, target, job, csv_files, idx, csv_file, processed,
                   existing_read, existing_data, new_data, translation_map,
                   rows, read_error, outcome, log, faults>>

NextReexport == Next \/ EditOriginal

\* jobs run one after the other, the original files edited between them
SpecReexport == InitJob /\ [][NextReexport]_vars

\* one invocation of generate_weblate_csv.py
RunExport ==
    /\ log = <<>>
    /\ StartExport

\* one invocation of apply_translate.py
RunImport ==
    /\ log = <<>>
    /\ StartImport

NextJob == RunExport \/ RunImport \/ ExportFile \/ ImportFile

\* one invocation of either script; the loop is straight-line code, so a
\* started iteration runs
SpecJob ==
    InitJob /\ [][NextJob]_vars /\ WF_vars(ExportFile) /\ WF_vars(ImportFile)

\* ---------------------------------------------------- reading the files
\* What the claims say of a file, stated on its rows.
IsLastOf(rs, i) == \A j \in (i + 1)..Len(rs) : rs[j][1] # rs[i][1]

IsFirstOf(rs, i) == \A j \in 1..(i - 1) : rs[j][1] # rs[i][1]

RowKeys(rs) == {rs[i][1] : i \in 1..Len(rs)} \ {""}

\* the last row of rs that carries key k
LastRow(rs, k) == rs[CHOOSE i \in 1..Len(rs) : rs[i][1] = k /\ IsLastOf(rs, i)]

HasFirst(rs, ks) ==
    {i \in 1..Len(rs) : rs[i][1] \in ks /\ IsFirstOf(rs, i)}

RECURSIVE Ascending(_)
Ascending(S) ==
    IF S = {} THEN <<>>
    ELSE LET m == CHOOSE x \in S : \A y \in S : x <= y
         IN <<m>> \o Ascending(S \ {m})

\* the keys of ks in the order of their first rows in rs
FirstOccurrences(rs, ks) ==
    LET at == Ascending(HasFirst(rs, ks))
    IN [i \in 1..Len(at) |-> rs[at[i]][1]]

KeyColumn(rs) == [i \in 1..Len(rs) |-> rs[i][1]]

NoEmptyKey(rs) == \A i \in 1..Len(rs) : rs[i][1] # ""

EmptyKeyRows(rs) == {i \in 1..Len(rs) : rs[i][1] = ""}

\* -------------------------------------------------------------- claims
\* The file the running iteration of the exporter's loop is about to handle.
Merging(p) == job = "export" /\ p = csv_files[idx] /\ outcome' = "updated"

\* C1: in an incremental merge, a key of both the existing platform mapping E
\* and the original file keeps E's target when that is non-empty and takes the
\* original's SourceString otherwise, and independently keeps E's comment
\* when that is non-empty and takes the original's Comment otherwise.
C1_MergeFillsOnlyEmpty ==
    outcome = "updated" =>
        \A k \in RowKeys(original[csv_file]) :
            KeyIn(existing_read, k) =>
                LET e == Lookup(existing_read, k)
                    n == LastRow(original[csv_file], k)
                IN /\ KeyIn(existing_data, k)
                   /\ Lookup(existing_data, k).target =
                        (IF e.target # "" THEN e.target ELSE n[2])
                   /\ Lookup(existing_data, k).developer_comments =
                        (IF e.developer_comments # ""
                         THEN e.developer_comments ELSE n[3])

\* A merge met a translated key whose source text differs, and filled the
\* empty comment of a translated key.
C1_Witness ==
    /\ outcome = "updated"
    /\ \E k \in RowKeys(original[csv_file]) :
          /\ KeyIn(existing_read, k)
          /\ Lookup(existing_read, k).target = "b"
          /\ LastRow(original[csv_file], k)[2] = "a"
    /\ \E k \in RowKeys(original[csv_file]) :
          /\ KeyIn(existing_read, k)
          /\ Lookup(existing_read, k).target = "b"
          /\ Lookup(existing_read, k).developer_comments = ""
          /\ LastRow(original[csv_file], k)[3] = "c"

\* C3: an incremental merge writes every key of the existing platform file
\* that the original file lacks exactly once, with the target and comment the
\* platform file gave it.
C3_StaleKeysRetained ==
    [][\A p \in Paths : Merging(p) =>
          \A k \in RowKeys(weblate[p].rows) \ RowKeys(original[p]) :
              LET out == weblate'[p].rows
              IN /\ Cardinality({i \in 1..Len(out) : out[i][1] = k}) = 1
                 /\ LastRow(out, k) = LastRow(weblate[p].rows, k)]_vars

\* A merge wrote a translated key the original file no longer has, beside a
\* key it took from the original file.
C3_Witness ==
    /\ outcome = "updated"
    /\ \E k \in RowKeys(weblate[csv_file].rows) \ RowKeys(original[csv_file]) :
          /\ KeyIn(existing_read, k)
          /\ LastRow(weblate[csv_file].rows, k)[2] = "b"
    /\ \E k \in RowKeys(original[csv_file]) : ~KeyIn(existing_read, k)

\* C4: an incremental merge writes the existing keys first, in the order of
\* their first rows in the platform file, then the keys only the original
\* file has, in the order of their first rows there, each with the
\* SourceString and Comment of its (last) row in the original file.
C4_NewKeysAppendedInOrder ==
    [][\A p \in Paths : Merging(p) =>
          LET old == weblate[p].rows
              out == weblate'[p].rows
              added == RowKeys(original[p]) \ RowKeys(old)
          IN /\ KeyColumn(out) =
                    FirstOccurrences(old, RowKeys(old))
                    \o FirstOccurrences(original[p], added)
             /\ \A k \in added :
                    LastRow(out, k) = LastRow(original[p], k)]_vars

\* A merge kept one existing key ahead of two new keys that the original
\* file lists in the opposite order of their names.
C4_Witness ==
    /\ outcome = "updated"
    /\ Len(existing_read) = 1
    /\ KeyColumn(weblate[csv_file].rows) = <<"k2", "k3", "k1">>
    /\ KeyColumn(original[csv_file]) = <<"k3", "k1">>

\* C5: run again on an unchanged original file, the exporter rewrites a
\* platform file that a merge against that original file produced with the
\* same rows in the same order.
C5_MergeIdempotent ==
    [][\A p \in Paths :
          (Merging(p) /\ outcome = "updated" /\ csv_file = p) =>
              weblate'[p] = weblate[p]]_vars

\* Two merges in a row, the original file repeating a key, the platform file
\* keeping a stale key and a still-empty target.
C5_Witness ==
    /\ outcome = "updated"
    /\ job = "idle"
    /\ Len(log) >= 2
    /\ log[Len(log)] = "export"
    /\ log[Len(log) - 1] = "export"
    /\ RowKeys(weblate[csv_file].rows) \ RowKeys(original[csv_file]) # {}
    /\ \E i \in 1..Len(original[csv_file]) :
          original[csv_file][i][1] # "" /\ ~IsLastOf(original[csv_file], i)
    /\ \E i \in 1..Len(weblate[csv_file].rows) :
          weblate[csv_file].rows[i][2] = ""

\* the target the platform file gives key k: that of the key's last row
FileTarget(file, k) ==
    IF file.exists /\ k \in RowKeys(file.rows)
    THEN LastRow(file.rows, k)[2]
    ELSE ""

\* C7: the importer writes one row per row of the original file, in order,
\* with the row's Key and Comment, and with the translation map's target for
\* the key when the map has one that is non-empty, the row's SourceString
\* otherwise; the map's developer_comments is not used.
C7_ImportOverride ==
    outcome = "applied" =>
        LET src == original[csv_file]
            out == target[csv_file].rows
        IN /\ Len(out) = Len(src)
           /\ \A i \in 1..Len(src) :
                 out[i] = <<src[i][1],
                            IF FileTarget(weblate[csv_file], src[i][1]) # ""
                            THEN FileTarget(weblate[csv_file], src[i][1])
                            ELSE src[i][2],
                            src[i][3]>>

\* An import translated one row, kept the text of a row whose translation is
\* empty, and met a platform comment where the original has none.
C7_Witness ==
    /\ outcome = "applied"
    /\ \E i \in 1..Len(original[csv_file]) :
          /\ original[csv_file][i][2] = "a"
          /\ target[csv_file].rows[i][2] = "b"
    /\ \E i \in 1..Len(original[csv_file]) :
          /\ KeyIn(translation_map, original[csv_file][i][1])
          /\ Lookup(translation_map, original[csv_file][i][1]) =
                Entry(original[csv_file][i][1], "", "d")
          /\ original[csv_file][i][3] = ""
          /\ target[csv_file].rows[i][2] = "a"

\* C8 as stated: no file a conversion writes has a row with an empty key.
C8_NoConversionWritesEmptyKey ==
    /\ outcome \in {"created", "updated"} =>
          NoEmptyKey(weblate[csv_file].rows)
    /\ outcome = "applied" => NoEmptyKey(target[csv_file].rows)

\* C8, amended: no file the fresh export or the incremental merge writes has
\* a row with an empty key; the importer writes the rows with an empty Key
\* at the places the original file has them.
C8_ExportersDropEmptyKey ==
    /\ outcome \in {"created", "updated"} =>
          NoEmptyKey(weblate[csv_file].rows)
    /\ outcome = "applied" =>
          EmptyKeyRows(target[csv_file].rows) = EmptyKeyRows(original[csv_file])

\* A merge took a new key from an original file whose first row has an
\* empty Key.
C8_Witness ==
    /\ outcome = "updated"
    /\ 1 \in EmptyKeyRows(original[csv_file])
    /\ \E k \in RowKeys(original[csv_file]) :
          /\ ~KeyIn(existing_read, k)
          /\ k \in RowKeys(weblate[csv_file].rows)

\* a fresh export and then an import have run, and nothing else
RoundTripDone == job = "idle" /\ log = <<"export", "import">>

\* C6 as stated: a fresh export followed by an import against that export
\* writes a target file whose rows are the original file's rows, in order.
C6_RoundTripIdentity ==
    RoundTripDone =>
        \A p \in Paths :
            Len(original[p]) >= 1 => target[p] = File(original[p])

\* no row's key has a last row with another, non-empty SourceString
LastRowsAgree(rs) ==
    \A i \in 1..Len(rs) :
        rs[i][1] = "" \/ LastRow(rs, rs[i][1])[2] \in {"", rs[i][2]}

\* C6, amended: the round trip writes one row per original row, in order,
\* with the row's Key and Comment; the SourceString is that of the last
\* original row with the same non-empty key when that is non-empty, the
\* row's own otherwise. So the target equals the original exactly when no
\* key's last row carries another, non-empty SourceString.
C6_RoundTripLastWins ==
    RoundTripDone =>
        \A p \in Paths :
            Len(original[p]) >= 1 =>
                LET src == original[p]
                    out == target[p].rows
                IN /\ target[p].exists
                   /\ Len(out) = Len(src)
                   /\ \A i \in 1..Len(src) :
                         out[i] = <<src[i][1],
                                    IF src[i][1] # ""
                                       /\ LastRow(src, src[i][1])[2] # ""
                                    THEN LastRow(src, src[i][1])[2]
                                    ELSE src[i][2],
                                    src[i][3]>>
                   /\ (out = src) <=> LastRowsAgree(src)

\* A round trip of a file whose key has two rows with different texts.
C6_Witness ==
    /\ RoundTripDone
    /\ outcome = "applied"
    /\ \E i \in 1..Len(original[1]) :
          /\ original[1][i][2] = "a"
          /\ target[1].rows[i][2] = "b"

\* C2 as stated: whatever reads fail, a key that has a non-empty target in
\* the platform file keeps that target in every later version of the file.
C2_TranslatedNeverClobbered ==
    [][\A p \in Paths : \A k \in Keys \ {""} :
          (outcome' # "write_error" /\ FileTarget(weblate[p], k) # "") =>
              FileTarget(weblate'[p], k) = FileTarget(weblate[p], k)]_vars

\* C9 as stated: a map reader that met an error returns an empty mapping.
C9_FailedReadReturnsEmpty ==
    read_error => existing_read = <<>> /\ translation_map = <<>>

\* C10: a job handles the files one at a time in the order of its list, each
\* exactly once, whatever fails; a call touches no other file's output; and
\* a started job ends.
C10_TraversalIsolated ==
    /\ [](job # "idle" =>
            \A i \in 1..Len(csv_files) :
                processed[csv_files[i]] = (IF i < idx THEN 1 ELSE 0))
    /\ [](job = "idle" /\ log # <<>> => \A p \in Paths : processed[p] = 1)
    /\ [][job # "idle" =>
            /\ original' = original
            /\ \A q \in Paths \ {csv_files[idx]} :
                  weblate'[q] = weblate[q] /\ target'[q] = target[q]]_vars
    /\ (job # "idle") ~> (job = "idle")

\* A job of two files ended with a call that went well after a call on an
\* earlier file had failed.
C10_Witness ==
    /\ job = "idle"
    /\ Len(log) = 1
    /\ Len(original) >= 2
    /\ faults < MaxFaults
    /\ ~read_error
    /\ outcome \in {"created", "updated", "applied"}

====
